---- MODULE Spec2Model ----
(***************************************************************************)
(* Model of src/app.py: the synthetic daily carbon-factor series           *)
(* (DynamicCarbonFactorSimulator), the calculator built on it              *)
(* (CarbonFootprintCalculator) and the Flask routes that call it.          *)
(*                                                                         *)
(* Numbers.  Python floats are modelled in fixed point:                    *)
(*   - carbon factors, intensities, prices' products: units of 1e-4;       *)
(*   - emissions: units of 1e-7 t (kWh * factor(1e-4) / 1000);             *)
(*   - values that went through round(x, 2): units of 1e-2.                *)
(* numpy's sine is modelled by Bhaskara's rational approximation, and the  *)
(* process-global numpy random stream by its seed and the number of        *)
(* variates drawn since seeding: the n-th variate is a fixed function of   *)
(* (seed, n), which is all the code relies on.                             *)
(***************************************************************************)
EXTENDS Integers, Sequences, FiniteSets, TLC

VARIABLES
    pc,             \* "loading": module body before line 275; "serving": after
    rng,            \* numpy's global stream: [seed, pos]
    daily_factors,  \* calculator.simulator.daily_factors (rows in index order)
    builds,         \* how many times calculator.simulator's series was built
    result          \* outcome of the last call

vars == <<pc, rng, daily_factors, builds, result>>

----------------------------------------------------------------------------
(* Bounds of the model *)

MaxEntries == 2         \* longest electricity_data / fuel_data list
MaxScenarios == 2       \* most scenarios in one /api/scenarios request
MaxHeatmapDays == 2     \* most days of a direct generate_heatmap_data call
MaxExtraDraws == 12     \* variates drawn besides whole series and whole heatmaps
MaxApiHeatmaps == 1     \* most /api/heatmap requests since the last generation

----------------------------------------------------------------------------
(* Python values *)

Str(chars) == [t |-> "str", v |-> chars]
None == [t |-> "None", v |-> <<>>]

Digits == <<"0", "1", "2", "3", "4", "5", "6", "7", "8", "9">>

IsDigit(c) == \E i \in 1..10 : Digits[i] = c

DigitVal(c) == (CHOOSE i \in 1..10 : Digits[i] = c) - 1

Pad2(n) == <<Digits[((n \div 10) % 10) + 1], Digits[(n % 10) + 1]>>

Pad4(n) == <<Digits[((n \div 1000) % 10) + 1], Digits[((n \div 100) % 10) + 1]>>
           \o Pad2(n % 100)

----------------------------------------------------------------------------
(* Calendar.  A pandas Timestamp is a count of time units since an epoch; at  *)
(* the day resolution of this program it is kept as the proleptic Gregorian  *)
(* day ordinal (0001-01-01 = 1).                                             *)

Timestamp(ord) == [kind |-> "ts", ord |-> ord]
NaT == [kind |-> "NaT", ord |-> 0]
NoTimestamp == [kind |-> "None", ord |-> 0]
ParseError == [kind |-> "raise", ord |-> 0]

IsLeap(y) == (y % 4 = 0 /\ y % 100 # 0) \/ y % 400 = 0

DaysInMonth(y, m) ==
    IF m = 2 THEN (IF IsLeap(y) THEN 29 ELSE 28)
    ELSE IF m \in {4, 6, 9, 11} THEN 30 ELSE 31

RECURSIVE DaysBeforeMonth(_, _)
DaysBeforeMonth(y, m) ==
    IF m <= 1 THEN 0 ELSE DaysBeforeMonth(y, m - 1) + DaysInMonth(y, m - 1)

DaysBeforeYear(y) ==
    (y - 1) * 365 + (y - 1) \div 4 - (y - 1) \div 100 + (y - 1) \div 400

DaysInYear(y) == IF IsLeap(y) THEN 366 ELSE 365

\* the ordinal of the calendar date y-m-d
ToOrdinal(y, m, d) == DaysBeforeYear(y) + DaysBeforeMonth(y, m) + d

\* the calendar date of an ordinal
FromOrdinal(n) ==
    LET y == CHOOSE c \in (n \div 366)..(n \div 365 + 1) :
                 DaysBeforeYear(c) < n /\ n <= DaysBeforeYear(c) + DaysInYear(c)
        doy == n - DaysBeforeYear(y)
        m == CHOOSE c \in 1..12 :
                 DaysBeforeMonth(y, c) < doy
                 /\ doy <= DaysBeforeMonth(y, c) + DaysInMonth(y, c)
    IN  [y |-> y, m |-> m, d |-> doy - DaysBeforeMonth(y, m)]

\* Timestamp.dayofyear
DayOfYear(ord) == ord - DaysBeforeYear(FromOrdinal(ord).y)

\* Timestamp.weekday(): Monday = 0 .. Sunday = 6
Weekday(ord) == (ord + 6) % 7

\* Timestamp.strftime('%Y-%m-%d')
Strftime(ord) ==
    LET c == FromOrdinal(ord)
    IN  Str(Pad4(c.y) \o <<"-">> \o Pad2(c.m) \o <<"-">> \o Pad2(c.d))

\* the text 'YYYY-MM-DD' of three numbers, calendar date or not
DateText(y, m, d) == Str(Pad4(y) \o <<"-">> \o Pad2(m) \o <<"-">> \o Pad2(d))

\* a range that leaves its end out
DateRangeEndExclusive(start, end) == [i \in 1..(end - start) |-> start + i - 1]

\* pd.date_range(start=, end=, freq='D'): one stamp a day, both ends included
DateRangeEnd(start, end) == [i \in 1..(end - start + 1) |-> start + i - 1]

\* pd.date_range(start=, periods=, freq='D')
DateRangePeriods(start, periods) == [i \in 1..periods |-> start + i - 1]

\* pd.to_datetime on None, on '' and on 'YYYY-MM-DD' text; other text does not
\* parse.  (Only such inputs are drawn below.)
ToDatetime(arg) ==
    IF arg.t = "None" THEN NoTimestamp
    ELSE LET s == arg.v IN
    IF Len(s) = 0 THEN NaT
    ELSE IF /\ Len(s) = 10
            /\ s[5] = "-" /\ s[8] = "-"
            /\ \A i \in {1, 2, 3, 4, 6, 7, 9, 10} : IsDigit(s[i])
    THEN LET y == 1000 * DigitVal(s[1]) + 100 * DigitVal(s[2])
                  + 10 * DigitVal(s[3]) + DigitVal(s[4])
             m == 10 * DigitVal(s[6]) + DigitVal(s[7])
             d == 10 * DigitVal(s[9]) + DigitVal(s[10])
         IN  IF y >= 1 /\ m \in 1..12 /\ d >= 1 /\ d <= DaysInMonth(y, m)
             THEN Timestamp(ToOrdinal(y, m, d))
             ELSE ParseError
    ELSE ParseError

----------------------------------------------------------------------------
(* numpy *)

\* np.sin(2*pi*t/1460) * 1000, t in 1/1460 turns (Bhaskara I's formula)
Sin1000(t) ==
    LET r == t % 1460
        h == IF r < 730 THEN r ELSE r - 730
        p == h * (730 - h)
        s == (16 * p * 1000) \div (5 * 730 * 730 - 4 * p)
    IN  IF r < 730 THEN s ELSE 0 - s

\* the n-th standard-normal variate (n >= 1) of the stream seeded `seed`, * 1000
StdNormal(seed, n) == ((seed * 7919 + n * 104729) % 6001) - 3000

\* the n-th uniform [0,1) variate of the stream seeded `seed`, * 1000
StdUniform(seed, n) == (seed * 31 + n * 617) % 1000

\* np.random.seed(s)
Seed(s) == [seed |-> s, pos |-> 0]

\* np.random.normal(0, sigma, size): the variates (* 1e4; sigma in 1e-2) ...
NormalValues(g, sigma, size) ==
    [i \in 1..size |-> (sigma * StdNormal(g.seed, g.pos + i)) \div 10]

\* ... the stream positions they come from, and the stream afterwards
NormalPositions(g, size) == [i \in 1..size |-> g.pos + i]

Advance(g, size) == [seed |-> g.seed, pos |-> g.pos + size]

----------------------------------------------------------------------------
(* DynamicCarbonFactorSimulator *)

SeriesSeed == 42        \* np.random.seed(42)
Fallback == 8000        \* return 0.8, in 1e-4

\* a generation that goes on with the stream as it finds it
GenerationStreamUnseeded(g) == g

\* the stream a generation draws from: reseeded whatever its state was
GenerationStream(g) == Seed(SeriesSeed)

\* dates = pd.date_range(start='2024-01-01', end='2024-12-31', freq='D')
dates == DateRangeEnd(ToOrdinal(2024, 1, 1), ToOrdinal(2024, 12, 31))

\* seasonal = 0.15 * np.sin(2*pi*dayofyear/365 - pi/2), in 1e-4
seasonal ==
    [i \in 1..Len(dates) |->
        (15 * Sin1000(4 * DayOfYear(dates[i]) - 365)) \div 10]

\* weekday_effect = np.where(dates.weekday < 5, 0.05, -0.03), in 1e-4
weekday_effect ==
    [i \in 1..Len(dates) |-> IF Weekday(dates[i]) < 5 THEN 500 ELSE 0 - 300]

\* The three columns of the DataFrame literal, evaluated in source order: each
\* np.random.normal(0, sigma, len(dates)) takes len(dates) variates at once.
LowColumn(g) ==
    LET noise == NormalValues(g, 12, Len(dates))
    IN  [i \in 1..Len(dates) |->
            (85 * (10000 + seasonal[i] + noise[i])) \div 100]

MediumColumn(g) ==
    LET noise == NormalValues(g, 8, Len(dates))
    IN  [i \in 1..Len(dates) |->
            (80 * (10000 + (8 * seasonal[i]) \div 10
                   + (5 * weekday_effect[i]) \div 10 + noise[i])) \div 100]

HighColumn(g) ==
    LET noise == NormalValues(g, 5, Len(dates))
    IN  [i \in 1..Len(dates) |->
            (78 * (10000 + (6 * seasonal[i]) \div 10
                   + (3 * weekday_effect[i]) \div 10 + noise[i])) \div 100]

\* the columns drawn in the order high, medium, low
StreamBeforeReversed(g, column) ==
    Advance(GenerationStream(g),
            (IF column = 4 THEN 3 ELSE 3 - column) * Len(dates))

\* the stream before the low (1), the medium (2) and the high (3) column's
\* draws, and after them all (4)
StreamBefore(g, column) == Advance(GenerationStream(g), (column - 1) * Len(dates))

\* _generate_daily_factors with the global stream in state g: the frame
\* (index and three columns), the stream afterwards, and which variate of the
\* stream each row's low, medium and high noise is
_generate_daily_factors(g) ==
    [frame |-> [index |-> dates,
                low_confidence |-> LowColumn(StreamBefore(g, 1)),
                medium_confidence |-> MediumColumn(StreamBefore(g, 2)),
                high_confidence |-> HighColumn(StreamBefore(g, 3))],
     draws |-> [low |-> NormalPositions(StreamBefore(g, 1), Len(dates)),
                medium |-> NormalPositions(StreamBefore(g, 2), Len(dates)),
                high |-> NormalPositions(StreamBefore(g, 3), Len(dates))],
     rng |-> StreamBefore(g, 4)]

\* the frame of a simulator that was never constructed
NoFrame ==
    [index |-> <<>>, low_confidence |-> <<>>, medium_confidence |-> <<>>,
     high_confidence |-> <<>>]

Returned(v) == [raised |-> FALSE, value |-> v]
Raised == [raised |-> TRUE, value |-> 0]

\* self.daily_factors.loc[date, column]: KeyError when no row is indexed date
Loc(df, date, column) ==
    LET rows == {i \in 1..Len(df.index) : date.kind = "ts" /\ df.index[i] = date.ord}
    IN  IF rows # {} THEN Returned(df[column][CHOOSE i \in rows : TRUE])
        ELSE Raised

\* a try block whose last branch reads the low band
GetFactorTryLowDefault(df, date_str, confidence_level) ==
    LET date == ToDatetime(date_str) IN
    IF date.kind = "raise" THEN Raised
    ELSE IF confidence_level = "high" THEN Loc(df, date, "high_confidence")
    ELSE IF confidence_level = "medium" THEN Loc(df, date, "medium_confidence")
    ELSE Loc(df, date, "low_confidence")

\* the body of get_factor's try block
GetFactorTry(df, date_str, confidence_level) ==
    LET date == ToDatetime(date_str) IN
    IF date.kind = "raise" THEN Raised
    ELSE IF confidence_level = "low" THEN Loc(df, date, "low_confidence")
    ELSE IF confidence_level = "high" THEN Loc(df, date, "high_confidence")
    ELSE Loc(df, date, "medium_confidence")

\* a get_factor without the except clause
GetFactorNoExcept(outcome) == outcome

\* what get_factor does with the try block's outcome: except: return 0.8
GetFactorExcept(outcome) ==
    IF outcome.raised THEN Returned(Fallback) ELSE outcome

get_factor(df, date_str, confidence_level) ==
    GetFactorExcept(GetFactorTry(df, date_str, confidence_level))

----------------------------------------------------------------------------
(* EmissionFactorDatabase (keys transliterated) *)

\* fuel_factors[...]['因子'], in 1e-2 tCO2 per unit
fuel_factors ==
    [coal |-> 264, natural_gas |-> 216, gasoline |-> 293, diesel |-> 310,
     fuel_oil |-> 324, lpg |-> 303]

\* grid_factors, in 1e-4 kgCO2/kWh
grid_factors ==
    [north_china_grid |-> 9419, northeast_grid |-> 10821,
     east_china_grid |-> 7921, central_china_grid |-> 8587,
     northwest_grid |-> 9428, south_china_grid |-> 8042,
     beijing |-> 7921, shanghai |-> 7921, jiangsu |-> 7921,
     zhejiang |-> 7921, guangdong |-> 8042, shandong |-> 9419]

\* self.db.grid_factors.get(region, 0.8)
GridFactor(region) ==
    IF region \in DOMAIN grid_factors THEN grid_factors[region] ELSE 8000

----------------------------------------------------------------------------
(* CarbonFootprintCalculator *)

\* round(x, ndigits) of x = n/unit kept in units of 10^-ndigits = n/(unit/d):
\* the nearest multiple of d, ties to even
Round(n, d) ==
    LET q == n \div d
        r == n - q * d
    IN  IF 2 * r < d THEN q
        ELSE IF 2 * r > d THEN q + 1
        ELSE IF q % 2 = 0 THEN q ELSE q + 1

RECURSIVE SumSeq(_)
SumSeq(s) == IF Len(s) = 0 THEN 0 ELSE s[1] + SumSeq(Tail(s))

\* the fuels calculate_scope1 keeps: if fuel_type in self.db.fuel_factors
RECURSIVE KnownFuels(_)
KnownFuels(fuel_data) ==
    IF Len(fuel_data) = 0 THEN <<>>
    ELSE (IF fuel_data[1].fuel_type \in DOMAIN fuel_factors
          THEN <<fuel_data[1]>> ELSE <<>>) \o KnownFuels(Tail(fuel_data))

\* calculate_scope1; consumption in whole units, emissions in 1e-2 t
calculate_scope1(fuel_data) ==
    LET kept == KnownFuels(fuel_data)
        emissions == [i \in 1..Len(kept) |->
                         kept[i].consumption * fuel_factors[kept[i].fuel_type]]
    IN  [raised |-> FALSE,
         total |-> Round(SumSeq(emissions), 1),
         details |-> [i \in 1..Len(kept) |->
                        [fuel_type |-> kept[i].fuel_type,
                         consumption |-> Round(kept[i].consumption * 100, 1),
                         unit |-> kept[i].unit,
                         emission_factor |-> fuel_factors[kept[i].fuel_type],
                         emissions_ton |-> Round(emissions[i], 1)]]]

\* self.simulator.get_yearly_factors(confidence_level): the simulator class
\* defines __init__, _generate_daily_factors and get_factor only, so the
\* attribute lookup raises AttributeError
get_yearly_factors(df, confidence_level) == Raised

\* calculate_scope2, branch `isinstance(electricity_data, dict) and
\* 'annual_consumption_kwh' in electricity_data`
Scope2Annual(df, electricity_data, region, confidence_level, use_dynamic) ==
    LET consumption == electricity_data.annual_consumption_kwh
        avg == IF use_dynamic THEN get_yearly_factors(df, confidence_level)
               ELSE Returned(GridFactor(region))
        emissions == consumption * avg.value
    IN  IF avg.raised
        THEN [raised |-> TRUE, total |-> 0, details |-> <<>>,
              use_dynamic |-> use_dynamic, confidence_level |-> confidence_level]
        ELSE [raised |-> FALSE,
              total |-> Round(emissions, 100000),
              details |-> <<[method |-> "annual_total",
                             consumption_kwh |-> Round(consumption * 100, 1),
                             carbon_factor |-> Round(avg.value, 1),
                             emissions_ton |-> Round(emissions, 100000)]>>,
              use_dynamic |-> use_dynamic, confidence_level |-> confidence_level]

\* day_data.get('date', '')
EntryDate(day_data) == IF day_data.has_date THEN day_data.date ELSE Str(<<>>)

\* a daily loop that always takes the static grid factor
EntryFactorStatic(df, day_data, region, confidence_level, use_dynamic) ==
    Returned(GridFactor(region))

\* the factor the daily loop weights one entry with (or the exception)
EntryFactor(df, day_data, region, confidence_level, use_dynamic) ==
    IF use_dynamic
    THEN get_factor(df, EntryDate(day_data), confidence_level)
    ELSE Returned(GridFactor(region))

\* total = round(total, 2) of the accumulated daily emissions (1e-7 t -> 1e-2 t)
Scope2Total(daily_emissions) == Round(SumSeq(daily_emissions), 100000)

\* calculate_scope2, branch `isinstance(electricity_data, list)`
Scope2Daily(df, electricity_data, region, confidence_level, use_dynamic) ==
    LET items == electricity_data.items
        factor == [i \in 1..Len(items) |->
                      EntryFactor(df, items[i], region, confidence_level,
                                  use_dynamic)]
        daily == [i \in 1..Len(items) |->
                     items[i].consumption_kwh * factor[i].value]
    IN  IF \E i \in 1..Len(items) : factor[i].raised
        THEN [raised |-> TRUE, total |-> 0, details |-> <<>>,
              use_dynamic |-> use_dynamic, confidence_level |-> confidence_level]
        ELSE
        [raised |-> FALSE,
         total |-> Scope2Total(daily),
         details |-> [i \in 1..Len(items) |->
                        [date |-> EntryDate(items[i]),
                         consumption_kwh |-> Round(items[i].consumption_kwh * 100, 1),
                         carbon_factor |-> Round(factor[i].value, 1),
                         emissions_ton |-> Round(daily[i], 100000)]],
         use_dynamic |-> use_dynamic, confidence_level |-> confidence_level]

calculate_scope2(df, electricity_data, region, confidence_level, use_dynamic) ==
    IF electricity_data.t = "dict" /\ electricity_data.has_annual
    THEN Scope2Annual(df, electricity_data, region, confidence_level, use_dynamic)
    ELSE IF electricity_data.t = "list"
    THEN Scope2Daily(df, electricity_data, region, confidence_level, use_dynamic)
    ELSE [raised |-> FALSE, total |-> Round(0, 1), details |-> <<>>,
          use_dynamic |-> use_dynamic, confidence_level |-> confidence_level]

\* a tax without the comparison of the two prices
TaxPerUnitUnguarded(carbon_intensity, eu_price, china_price, free_rate) ==
    (eu_price - china_price) * carbon_intensity * (100 - free_rate)

\* tax_per_unit of calculate_cbam_tax, in 1e-6 EUR per unit
\* (prices in EUR, carbon_intensity in 1e-4, free_allowance_rate in 1e-2)
TaxPerUnit(carbon_intensity, eu_price, china_price, free_rate) ==
    IF eu_price > china_price
    THEN (eu_price - china_price) * carbon_intensity * (100 - free_rate)
    ELSE 0

\* calculate_cbam_tax; the returned amounts went through round(x, 2)
calculate_cbam_tax(product_footprint, export_volume, eu_price, china_price, free_rate) ==
    LET tax_per_unit == TaxPerUnit(product_footprint, eu_price, china_price,
                                   free_rate)
        total_tax == tax_per_unit * export_volume
    IN  [raised |-> FALSE,
         product_carbon_intensity |-> Round(product_footprint, 1),
         export_volume |-> export_volume,
         eu_carbon_price_eur |-> eu_price,
         china_carbon_price_eur |-> china_price,
         free_allowance_rate |-> Round(free_rate * 10, 1),
         tax_per_unit_eur |-> Round(tax_per_unit, 10000),
         total_tax_eur |-> Round(total_tax, 10000),
         \* exchange_rate = 7.8 = 39/5
         total_tax_cny |-> Round(total_tax * 39, 50000)]

\* classes whose upper boundaries are inclusive
_get_carbon_level_inclusive(factor) ==
    IF factor <= 7000 THEN "very_clean"
    ELSE IF factor <= 8000 THEN "clean"
    ELSE IF factor <= 9000 THEN "moderate"
    ELSE IF factor <= 10000 THEN "elevated"
    ELSE "high"

\* _get_carbon_level, factor in 1e-4; the five labels in English
_get_carbon_level(factor) ==
    IF factor < 7000 THEN "very_clean"
    ELSE IF factor < 8000 THEN "clean"
    ELSE IF factor < 9000 THEN "moderate"
    ELSE IF factor < 10000 THEN "elevated"
    ELSE "high"

\* regions = ['北京', '上海', '江苏', '浙江', '广东', '山东']
regions == <<"beijing", "shanghai", "jiangsu", "zhejiang", "guangdong", "shandong">>

\* carbon_factor of one heatmap cell, z the cell's np.random.normal(0, 0.1) * 1e4
HeatmapFactor(date, region, z) ==
    LET base_factor == GridFactor(region)
        hm_seasonal == 2 * Sin1000(4 * DayOfYear(date))
        hm_weekday == IF Weekday(date) < 5 THEN 1000 ELSE 0 - 500
    IN  (base_factor * (10000 + (6 * hm_seasonal) \div 10
                        + (3 * hm_weekday) \div 10 + z \div 10)) \div 10000

\* the list generate_heatmap_data builds: one cell per (date, region), dates
\* outermost, each cell taking the next variate of the stream
HeatmapData(g, start, days) ==
    LET hm_dates == DateRangePeriods(start, days)
        cells == days * Len(regions)
        z == NormalValues(g, 10, cells)
    IN  [c \in 1..cells |->
            LET date == hm_dates[(c - 1) \div Len(regions) + 1]
                region == regions[((c - 1) % Len(regions)) + 1]
                carbon_factor == HeatmapFactor(date, region, z[c])
            IN  [date |-> Strftime(date),
                 region |-> region,
                 carbon_factor |-> Round(carbon_factor, 1),
                 level |-> _get_carbon_level(carbon_factor)]]

\* generate_heatmap_data raises when pd.date_range cannot read start_date
HeatmapRaises(start_date) == ToDatetime(start_date).kind # "ts"

\* the global stream after generate_heatmap_data
HeatmapStream(g, start_date, days) ==
    IF HeatmapRaises(start_date) THEN g ELSE Advance(g, days * Len(regions))

\* generate_heatmap_data with the global stream in state g
generate_heatmap_data(g, start_date, days) ==
    IF HeatmapRaises(start_date) THEN <<>>
    ELSE HeatmapData(g, ToDatetime(start_date).ord, days)

\* np.random.uniform(lo, hi) taking variate n of the stream, in 1e-3
Uniform(g, n, lo, hi) == lo * 1000 + (hi - lo) * StdUniform(g.seed, g.pos + n)

\* the result list of api_scenarios for n scenarios, three variates each
Scenarios(g, n) ==
    [k \in 1..n |->
        [emissions_reduction |-> Round(Uniform(g, 3 * k - 2, 5, 30), 100),
         cbam_tax_saving |-> Round(Uniform(g, 3 * k - 1, 1000, 50000), 10),
         roi_years |-> Round(Uniform(g, 3 * k, 2, 8), 100)]]

\* the body of api_calculate's try block
ApiCalculateTry(df, data) ==
    LET scope1_result == calculate_scope1(data.fuel_data)
        scope2_result == calculate_scope2(df, data.electricity_data, data.region,
                                          data.confidence_level, data.use_dynamic)
        total_emissions == scope1_result.total + scope2_result.total
        annual_output == data.output
        \* 1e-2 t / units -> 1e-4 t per unit
        product_footprint == IF annual_output > 0
                             THEN (total_emissions * 100) \div annual_output
                             ELSE 0
        cbam_result == IF data.export_volume > 0
                       THEN <<calculate_cbam_tax(product_footprint,
                                                 data.export_volume, 80, 60, 10)>>
                       ELSE <<>>
    IN  IF scope2_result.raised
        THEN [status |-> 400, success |-> FALSE]
        ELSE [status |-> 200, success |-> TRUE,
              scope1 |-> scope1_result, scope2 |-> scope2_result,
              total_emissions |-> Round(total_emissions, 1),
              product_footprint |-> Round(product_footprint, 1),
              cbam_result |-> cbam_result]

----------------------------------------------------------------------------
(* Inputs *)

\* seeds the operating system's entropy may give numpy's global stream
EntropySeeds == {7, 42, 1234}

NotADate == Str(<<"n", "o", "t", "-", "a", "-", "d", "a", "t", "e">>)

\* dates of the series (first, leap day, last), calendar dates outside it,
\* texts that are no calendar date, the empty text and a missing value
DateStrings ==
    {DateText(2024, 1, 1), DateText(2024, 2, 29), DateText(2024, 12, 31),
     DateText(2023, 12, 31), DateText(2025, 1, 1), DateText(2030, 1, 1),
     DateText(2024, 2, 30), DateText(2023, 2, 29), DateText(2024, 13, 1),
     DateText(2024, 6, 0), NotADate, Str(<<>>), None}

\* confidence_level; "<None>" stands for a missing level (None)
Levels == {"low", "medium", "high", "unknown_level", "", "<None>"}

\* (confidence_level, region, use_dynamic) of the calculate_scope2 calls
Scope2Calls ==
    {<<"medium", "east_china_grid", TRUE>>, <<"low", "east_china_grid", TRUE>>,
     <<"medium", "northeast_grid", FALSE>>, <<"medium", "nowhere", FALSE>>}

DayData(has_date, date, kwh) ==
    [has_date |-> has_date, date |-> date, consumption_kwh |-> kwh]

Entries ==
    {DayData(TRUE, DateText(2024, 2, 29), 12500),
     DayData(TRUE, DateText(2030, 1, 1), 1),
     DayData(TRUE, NotADate, 12500),
     DayData(FALSE, None, 1)}

RECURSIVE SeqsUpTo(_, _)
SeqsUpTo(S, n) ==
    IF n = 0 THEN {<<>>}
    ELSE LET shorter == SeqsUpTo(S, n - 1)
         IN  shorter \cup {Append(q, x) : q \in shorter, x \in S}

ListData(items) ==
    [t |-> "list", has_annual |-> FALSE, annual_consumption_kwh |-> 0,
     items |-> items]

DictData(has_annual, kwh) ==
    [t |-> "dict", has_annual |-> has_annual, annual_consumption_kwh |-> kwh,
     items |-> <<>>]

ElectricityData ==
    {ListData(items) : items \in SeqsUpTo(Entries, MaxEntries)}
    \cup {DictData(TRUE, 10000), DictData(FALSE, 0)}

Fuel(fuel_type, consumption) ==
    [fuel_type |-> fuel_type, consumption |-> consumption, unit |-> "t"]

Fuels == {Fuel("coal", 1), Fuel("wood", 5)}

FuelData == SeqsUpTo(Fuels, MaxEntries)

\* carbon factors around every class boundary, in 1e-4
FactorValues ==
    {0 - 1, 0, 6999, 7000, 7001, 7999, 8000, 8001, 8999, 9000, 9001,
     9999, 10000, 10001, 15000}

Requests ==
    [fuel_data : {<<Fuel("coal", 1)>>},
     electricity_data : {DictData(FALSE, 0), DictData(TRUE, 10000),
                         ListData(<<DayData(TRUE, DateText(2024, 2, 29), 12500)>>)},
     region : {"east_china_grid"},
     confidence_level : {"medium"},
     use_dynamic : BOOLEAN,
     output : {0, 100},
     export_volume : {0, 10}]

\* (product_footprint 1e-4, export_volume, eu_carbon_price, china_carbon_price,
\*  free_allowance_rate 1e-2) of the calculate_cbam_tax calls
CbamCalls ==
    {0, 123, 2500} \X {0, 3, 10} \X {60, 80} \X {60, 75} \X {0, 10, 100}

\* the core of the inputs, for the whole process
CoreDateStrings == {DateText(2024, 2, 29), DateText(2030, 1, 1), NotADate}
CoreLevels == {"low", "medium"}
CoreFuelData == {<<>>, <<Fuel("coal", 1)>>}
CoreElectricityData ==
    {DictData(TRUE, 10000), DictData(FALSE, 0),
     ListData(<<DayData(TRUE, DateText(2024, 2, 29), 12500)>>)}
CoreScope2Calls ==
    {<<"medium", "east_china_grid", TRUE>>, <<"medium", "east_china_grid", FALSE>>}
CoreCbamCalls == {<<123, 10, 80, 60, 10>>, <<123, 10, 60, 75, 10>>}
CoreFactorValues == {6999, 7000, 10000}
CoreRequests ==
    {r \in Requests : r.output = 100 /\ r.export_volume = 10}

----------------------------------------------------------------------------
(* The process *)

NoResult == [op |-> "none"]

\* The module body up to line 275: the class definitions, no calculator yet.
\* numpy seeded its global stream from the operating system at import.
Init ==
    /\ pc = "loading"
    /\ rng \in {Seed(s) : s \in EntropySeeds}
    /\ daily_factors = NoFrame
    /\ builds = 0
    /\ result = NoResult

\* calculator = CarbonFootprintCalculator(): its __init__ constructs the
\* simulator, whose __init__ stores _generate_daily_factors()
Construct ==
    /\ pc = "loading"
    /\ LET gen == _generate_daily_factors(rng)
       IN  /\ daily_factors' = gen.frame
           /\ rng' = gen.rng
           /\ result' = [op |-> "construct", stream_before |-> rng,
                         draws |-> gen.draws]
    /\ builds' = builds + 1
    /\ pc' = "serving"

\* variates drawn since the last generation, whole heatmaps apart
ExtraDraws(g) == (g.pos - 3 * Len(dates)) % (365 * Len(regions))

\* whole default heatmaps drawn since the last generation
ApiHeatmaps(g) == (g.pos - 3 * Len(dates)) \div (365 * Len(regions))

\* the stream may still give n variates within the model's bounds
CanDraw(n) == ExtraDraws(rng) + n <= MaxExtraDraws

\* calculator.simulator.get_factor(date_str, confidence_level)
GetFactor(date_strs, levels) ==
    /\ pc = "serving"
    /\ \E date_str \in date_strs, confidence_level \in levels :
          result' = [op |-> "get_factor", date_str |-> date_str,
                     confidence_level |-> confidence_level,
                     out |-> get_factor(daily_factors, date_str, confidence_level)]
    /\ UNCHANGED <<pc, rng, daily_factors, builds>>

\* calculator.calculate_scope1(fuel_data)
CalculateScope1(fuel_datas) ==
    /\ pc = "serving"
    /\ \E fuel_data \in fuel_datas :
          result' = [op |-> "calculate_scope1", fuel_data |-> fuel_data,
                     out |-> calculate_scope1(fuel_data)]
    /\ UNCHANGED <<pc, rng, daily_factors, builds>>

\* calculator.calculate_scope2(electricity_data, region, confidence_level,
\*                             use_dynamic)
CalculateScope2(electricity_datas, calls) ==
    /\ pc = "serving"
    /\ \E electricity_data \in electricity_datas, call \in calls :
          result' = [op |-> "calculate_scope2",
                     electricity_data |-> electricity_data,
                     region |-> call[2],
                     out |-> calculate_scope2(daily_factors, electricity_data,
                                              call[2], call[1], call[3])]
    /\ UNCHANGED <<pc, rng, daily_factors, builds>>

\* calculator.calculate_cbam_tax(product_footprint, export_data, ...)
CalculateCbamTax(calls) ==
    /\ pc = "serving"
    /\ \E call \in calls :
          result' = [op |-> "calculate_cbam_tax",
                     product_footprint |-> call[1],
                     free_allowance_rate |-> call[5],
                     out |-> calculate_cbam_tax(call[1], call[2], call[3],
                                                call[4], call[5])]
    /\ UNCHANGED <<pc, rng, daily_factors, builds>>

\* calculator._get_carbon_level(factor)
GetCarbonLevel(factors) ==
    /\ pc = "serving"
    /\ \E factor \in factors :
          result' = [op |-> "_get_carbon_level", factor |-> factor,
                     out |-> _get_carbon_level(factor)]
    /\ UNCHANGED <<pc, rng, daily_factors, builds>>

\* calculator.generate_heatmap_data(start_date, days)
GenerateHeatmapData ==
    /\ pc = "serving"
    /\ \E start_date \in {DateText(2024, 1, 1), DateText(2024, 12, 31), NotADate},
          days \in 0..MaxHeatmapDays :
          /\ CanDraw(days * Len(regions))
          /\ result' = [op |-> "generate_heatmap_data", stream_before |-> rng,
                        raised |-> HeatmapRaises(start_date),
                        out |-> generate_heatmap_data(rng, start_date, days)]
          /\ rng' = HeatmapStream(rng, start_date, days)
    /\ UNCHANGED <<pc, daily_factors, builds>>

\* a second simulator that replaces the calculator's
NewSimulatorInstalled ==
    /\ pc = "serving"
    /\ LET gen == _generate_daily_factors(rng)
       IN  /\ result' = [op |-> "DynamicCarbonFactorSimulator",
                         stream_before |-> rng,
                         daily_factors |-> gen.frame, draws |-> gen.draws]
           /\ rng' = gen.rng
           /\ daily_factors' = gen.frame
    /\ builds' = builds + 1
    /\ UNCHANGED pc

\* DynamicCarbonFactorSimulator(): a second, independent instance; it is the
\* call's value and replaces nothing
NewSimulator ==
    /\ pc = "serving"
    /\ LET gen == _generate_daily_factors(rng)
       IN  /\ result' = [op |-> "DynamicCarbonFactorSimulator",
                         stream_before |-> rng,
                         daily_factors |-> gen.frame, draws |-> gen.draws]
           /\ rng' = gen.rng
    /\ UNCHANGED <<pc, daily_factors, builds>>

\* POST /api/calculate
ApiCalculate(requests) ==
    /\ pc = "serving"
    /\ \E data \in requests :
          result' = [op |-> "api_calculate", data |-> data,
                     out |-> ApiCalculateTry(daily_factors, data)]
    /\ UNCHANGED <<pc, rng, daily_factors, builds>>

\* GET /api/heatmap: generate_heatmap_data() with its defaults, start_date
\* '2024-01-01' and days 365.  Of the response the status and the count are
\* kept, not the 2190 cells.
ApiHeatmap ==
    /\ pc = "serving"
    /\ ApiHeatmaps(rng) < MaxApiHeatmaps
    /\ result' = [op |-> "api_heatmap", stream_before |-> rng,
                  success |-> ~HeatmapRaises(DateText(2024, 1, 1)),
                  count |-> 365 * Len(regions)]
    /\ rng' = HeatmapStream(rng, DateText(2024, 1, 1), 365)
    /\ UNCHANGED <<pc, daily_factors, builds>>

\* POST /api/scenarios
ApiScenarios ==
    /\ pc = "serving"
    /\ \E n \in 0..MaxScenarios :
          /\ CanDraw(3 * n)
          /\ result' = [op |-> "api_scenarios", stream_before |-> rng,
                        success |-> TRUE, data |-> Scenarios(rng, n)]
          /\ rng' = Advance(rng, 3 * n)
    /\ UNCHANGED <<pc, daily_factors, builds>>

\* the routes that touch neither the calculator nor the stream
StaticRoute ==
    /\ pc = "serving"
    /\ \E route \in {"home", "calculator_page", "results_page",
                     "api_emission_factors", "download_report"} :
          result' = [op |-> route]
    /\ UNCHANGED <<pc, rng, daily_factors, builds>>

\* The whole process: every operation, the calls on a core of their inputs
Next ==
    \/ Construct
    \/ GetFactor(CoreDateStrings, CoreLevels)
    \/ CalculateScope1(CoreFuelData)
    \/ CalculateScope2(CoreElectricityData, CoreScope2Calls)
    \/ CalculateCbamTax(CoreCbamCalls)
    \/ GetCarbonLevel(CoreFactorValues)
    \/ GenerateHeatmapData
    \/ NewSimulator
    \/ ApiCalculate(CoreRequests)
    \/ ApiHeatmap
    \/ ApiScenarios
    \/ StaticRoute

Spec == Init /\ [][Next]_vars

\* The calculator's calls on all their inputs; none of them draws from the
\* stream
NextCalls ==
    \/ Construct
    \/ GetFactor(DateStrings, Levels)
    \/ CalculateScope1(FuelData)
    \/ CalculateScope2(ElectricityData, Scope2Calls)
    \/ CalculateCbamTax(CbamCalls)
    \/ GetCarbonLevel(FactorValues)
    \/ ApiCalculate(Requests)

SpecCalls == Init /\ [][NextCalls]_vars

----------------------------------------------------------------------------
(* Properties *)

Abs(n) == IF n < 0 THEN 0 - n ELSE n

\* the rows of the series whose index date, written %Y-%m-%d, is the text
RowsWritten(date_str) ==
    {i \in 1..Len(daily_factors.index) : Strftime(daily_factors.index[i]) = date_str}

HasRecord(date_str) == RowsWritten(date_str) # {}

\* the band of the text's record that a confidence level names
Band(date_str, column) ==
    daily_factors[column][CHOOSE i \in RowsWritten(date_str) : TRUE]

\* C1: get_factor never raises; for a date text that is unparseable or has no
\* record in the series it returns exactly the fallback 0.8, whatever the
\* confidence level, and for a date that has a record it returns that
\* record's band value.
C1_FallbackOrBand ==
    result.op = "get_factor" =>
        /\ ~result.out.raised
        /\ IF HasRecord(result.date_str)
           THEN result.out.value \in
                    {Band(result.date_str, c) :
                        c \in {"low_confidence", "medium_confidence", "high_confidence"}}
           ELSE result.out.value = Fallback

C1_Witness ==
    /\ result.op = "get_factor"
    /\ result.date_str = DateText(2030, 1, 1)
    /\ result.confidence_level = "high"
    /\ result.out = Returned(Fallback)

\* C2: the annual branch of calculate_scope2 with use_dynamic true returns a
\* result, not an error, and its factor is the mean of the level's band over
\* every date of the series (to the rounding of the reported factor).
C2_YearlyAverage ==
    (/\ result.op = "calculate_scope2"
     /\ result.electricity_data.t = "dict"
     /\ result.electricity_data.has_annual
     /\ result.out.use_dynamic) =>
        /\ ~result.out.raised
        /\ LET column == IF result.out.confidence_level = "low"
                         THEN daily_factors.low_confidence
                         ELSE daily_factors.medium_confidence
           IN  2 * Abs(result.out.details[1].carbon_factor * Len(column)
                       - SumSeq(column)) <= Len(column)

\* C3: for a date of the series, a confidence level that is neither 'low' nor
\* 'high' (unknown, empty or missing) gives the medium band, as 'medium'
\* does; 'low' gives the low band and 'high' the high band.
C3_LevelFallsBackToMedium ==
    (result.op = "get_factor" /\ HasRecord(result.date_str)) =>
        result.out =
            Returned(Band(result.date_str,
                          IF result.confidence_level = "low" THEN "low_confidence"
                          ELSE IF result.confidence_level = "high"
                          THEN "high_confidence"
                          ELSE "medium_confidence"))

C3_Witness ==
    /\ result.op = "get_factor"
    /\ result.date_str = DateText(2024, 2, 29)
    /\ result.confidence_level = "unknown_level"
    /\ result.out.value = Band(result.date_str, "medium_confidence")
    /\ result.out.value # Band(result.date_str, "low_confidence")
    /\ result.out.value # Band(result.date_str, "high_confidence")

ClassRank(label) ==
    CASE label = "very_clean" -> 1
      [] label = "clean" -> 2
      [] label = "moderate" -> 3
      [] label = "elevated" -> 4
      [] label = "high" -> 5

\* C4: _get_carbon_level maps every factor to one of five ordered classes
\* with lower-inclusive, upper-exclusive boundaries at 0.7, 0.8, 0.9 and 1.0,
\* and the class never decreases as the factor grows.
C4_LevelBoundaries ==
    result.op = "_get_carbon_level" =>
        LET f == result.factor IN
        /\ result.out \in {"very_clean", "clean", "moderate", "elevated", "high"}
        /\ (f < 7000) <=> (result.out = "very_clean")
        /\ (7000 <= f /\ f < 8000) <=> (result.out = "clean")
        /\ (8000 <= f /\ f < 9000) <=> (result.out = "moderate")
        /\ (9000 <= f /\ f < 10000) <=> (result.out = "elevated")
        /\ (10000 <= f) <=> (result.out = "high")
        /\ \A g \in FactorValues :
              g <= f => ClassRank(_get_carbon_level(g)) <= ClassRank(result.out)

C4_Witness ==
    /\ result.op = "_get_carbon_level"
    /\ result.factor = 7000
    /\ result.out = "clean"

\* the calendar dates of 2024, as (month, day)
Calendar2024 ==
    {md \in (1..12) \X (1..31) : md[2] <= DaysInMonth(2024, md[1])}

\* C5: after generation the series holds exactly one record per calendar date
\* of 2024-01-01..2024-12-31, ascending, each date the day after the one
\* before, and every record has its low, medium and high band.
C5_OneRecordPerDate ==
    pc = "serving" =>
        LET index == daily_factors.index IN
        /\ Len(index) = Cardinality(Calendar2024)
        /\ \A md \in Calendar2024 :
              LET ord == ToOrdinal(2024, md[1], md[2])
                  i == ord - ToOrdinal(2024, 1, 1) + 1
              IN  i \in 1..Len(index) /\ index[i] = ord
        /\ \A i \in 1..(Len(index) - 1) : index[i + 1] = index[i] + 1
        /\ \A i \in 1..Len(index) : FromOrdinal(index[i]).y = 2024
        /\ Len(daily_factors.low_confidence) = Len(index)
        /\ Len(daily_factors.medium_confidence) = Len(index)
        /\ Len(daily_factors.high_confidence) = Len(index)

C5_Witness ==
    /\ pc = "serving"
    /\ Len(daily_factors.index) = 366
    /\ Strftime(daily_factors.index[60]) = DateText(2024, 2, 29)
    /\ Strftime(daily_factors.index[366]) = DateText(2024, 12, 31)

\* C6: a generation yields the same series whatever the process-global stream
\* did before it: a second generation equals the first, also after heatmap
\* or scenario draws, and the first does not depend on the entropy seed.
C6_GenerationDeterministic ==
    /\ result.op = "DynamicCarbonFactorSimulator" =>
           result.daily_factors = daily_factors
    /\ result.op = "construct" =>
           daily_factors = _generate_daily_factors(Seed(SeriesSeed)).frame

C6_Witness ==
    /\ result.op = "DynamicCarbonFactorSimulator"
    /\ result.stream_before.pos > 3 * Len(dates)
    /\ result.daily_factors = daily_factors
    /\ Len(daily_factors.index) > 0

\* C7: the calculator's series is built once, at module initialization, and
\* no call or route changes it afterwards.
C7_SeriesImmutable ==
    /\ [](pc = "serving" => builds = 1)
    /\ [][pc = "serving" =>
            (daily_factors' = daily_factors /\ builds' = builds)]_vars

C7_Witness ==
    /\ pc = "serving"
    /\ builds = 1
    /\ result.op = "api_scenarios"
    /\ rng.pos > 3 * Len(dates) + 365 * Len(regions)
    /\ Len(daily_factors.index) > 0

\* C8 as stated: the noises are drawn date-major, the k-th date's low, medium
\* and high noise being variates 3k+1, 3k+2 and 3k+3 of the seeded stream.
C8_DateMajorDraws ==
    result.op = "construct" =>
        \A k \in 0..(Len(daily_factors.index) - 1) :
            /\ result.draws.low[k + 1] = 3 * k + 1
            /\ result.draws.medium[k + 1] = 3 * k + 2
            /\ result.draws.high[k + 1] = 3 * k + 3

\* C8 amended: the noises are drawn band-major from the stream seeded 42: all
\* dates' low noises in ascending date order, then all medium, then all high;
\* with N dates the k-th date's low, medium and high noise are variates k+1,
\* N+k+1 and 2N+k+1.
C8_BandMajorDraws ==
    result.op \in {"construct", "DynamicCarbonFactorSimulator"} =>
        LET N == Len(daily_factors.index) IN
        /\ rng = Advance(Seed(SeriesSeed), 3 * N)
        /\ \A k \in 0..(N - 1) :
              /\ result.draws.low[k + 1] = k + 1
              /\ result.draws.medium[k + 1] = N + k + 1
              /\ result.draws.high[k + 1] = 2 * N + k + 1

C8_Witness ==
    /\ result.op = "construct"
    /\ result.draws.low[2] = 2
    /\ result.draws.medium[1] = 367
    /\ result.draws.high[366] = 1098

\* the factor an entry is to be weighted with: its date's band, or the fallback
ExpectedFactor(day_data, confidence_level) ==
    IF HasRecord(EntryDate(day_data))
    THEN Band(EntryDate(day_data),
              IF confidence_level = "low" THEN "low_confidence"
              ELSE IF confidence_level = "high" THEN "high_confidence"
              ELSE "medium_confidence")
    ELSE Fallback

\* sum over the entries of consumption_kwh * factor / 1000, in 1e-7 t
ExpectedSum(items, confidence_level) ==
    SumSeq([i \in 1..Len(items) |->
               items[i].consumption_kwh * ExpectedFactor(items[i], confidence_level)])

IsDynamicDaily ==
    /\ result.op = "calculate_scope2"
    /\ result.electricity_data.t = "list"
    /\ result.out.use_dynamic

\* never raises, one detail per entry in input order, each weighted by its
\* date's factor or the fallback
DailyDetails ==
    LET items == result.electricity_data.items IN
    /\ ~result.out.raised
    /\ Len(result.out.details) = Len(items)
    /\ \A i \in 1..Len(items) :
          /\ result.out.details[i].date = EntryDate(items[i])
          /\ result.out.details[i].carbon_factor
                = ExpectedFactor(items[i], result.out.confidence_level)

\* C9 as stated: ... and the total is the sum over the entries of
\* consumption_kwh * factor / 1000.
C9_TotalIsSum ==
    IsDynamicDaily =>
        /\ DailyDetails
        /\ result.out.total * 100000
              = ExpectedSum(result.electricity_data.items,
                            result.out.confidence_level)

\* C9 amended: for a list of daily entries with use_dynamic true,
\* calculate_scope2 never raises whatever the date texts are, gives one detail
\* per entry in input order, weights each entry by its date's factor or the
\* fallback 0.8, and its total is the sum of consumption_kwh * factor / 1000
\* rounded to two decimals.
C9_TotalIsRoundedSum ==
    IsDynamicDaily =>
        /\ DailyDetails
        /\ 2 * Abs(result.out.total * 100000
                   - ExpectedSum(result.electricity_data.items,
                                 result.out.confidence_level)) <= 100000

C9_Witness ==
    /\ IsDynamicDaily
    /\ Len(result.electricity_data.items) = 2
    /\ HasRecord(EntryDate(result.electricity_data.items[1]))
    /\ EntryDate(result.electricity_data.items[2]) = NotADate
    /\ result.out.details[2].carbon_factor = Fallback
    /\ result.out.total > 0
    /\ result.out.confidence_level = "low"

\* (eu - china) * intensity * (1 - rate) of the call, in 1e-6 EUR
ExactTax ==
    (result.out.eu_carbon_price_eur - result.out.china_carbon_price_eur)
    * result.product_footprint * (100 - result.free_allowance_rate)

\* C10 as stated: no tax unless the EU price exceeds the China price;
\* otherwise the per-unit tax is (eu - china) * intensity * (1 - rate) and the
\* total tax is the per-unit tax times the export volume; never negative.
C10_TaxIsProduct ==
    result.op = "calculate_cbam_tax" =>
        IF result.out.eu_carbon_price_eur <= result.out.china_carbon_price_eur
        THEN result.out.tax_per_unit_eur = 0 /\ result.out.total_tax_eur = 0
        ELSE /\ result.out.tax_per_unit_eur * 10000 = ExactTax
             /\ result.out.total_tax_eur
                   = result.out.tax_per_unit_eur * result.out.export_volume
             /\ result.out.tax_per_unit_eur >= 0
             /\ result.out.total_tax_eur >= 0

\* C10 amended: no tax unless the EU price exceeds the China price; otherwise
\* the reported per-unit tax is (eu - china) * intensity * (1 - rate) rounded
\* to two decimals, and the reported total is that unrounded product times the
\* export volume, rounded to two decimals; never negative.
C10_TaxIsRoundedProduct ==
    result.op = "calculate_cbam_tax" =>
        IF result.out.eu_carbon_price_eur <= result.out.china_carbon_price_eur
        THEN result.out.tax_per_unit_eur = 0 /\ result.out.total_tax_eur = 0
        ELSE /\ 2 * Abs(result.out.tax_per_unit_eur * 10000 - ExactTax) <= 10000
             /\ 2 * Abs(result.out.total_tax_eur * 10000
                        - ExactTax * result.out.export_volume) <= 10000
             /\ result.out.tax_per_unit_eur >= 0
             /\ result.out.total_tax_eur >= 0

C10_Witness ==
    /\ result.op = "calculate_cbam_tax"
    /\ result.out.eu_carbon_price_eur > result.out.china_carbon_price_eur
    /\ result.out.tax_per_unit_eur = 22
    /\ result.out.total_tax_eur = 221
    /\ result.out.export_volume = 10

====
